---- MODULE Spec2Model ----
(***************************************************************************)
(* Model of src/src/gutenberg_scrape/main.py: the sequential downloader    *)
(* that walks book IDs start_id..MAX_ID, skips IDs whose file exists,      *)
(* otherwise calls try_download (bounded retry), and rewrites              *)
(* progress.json after every ID.  The disk (progress file, download        *)
(* directory) survives process kills and restarts; everything else is      *)
(* per-run.                                                                *)
(***************************************************************************)
EXTENDS Integers, Sequences, FiniteSets, TLC

\* ---- bounds and program constants ----
MAX_ID == 3          \* main.py:9 sets 10000; scaled down for checking
MAX_RETRIES == 3     \* main.py:15
MaxRuns == 2         \* number of process starts explored
MaxReq == 4          \* cap on the requests explored for one ID

IDs == 1..MAX_ID

VARIABLES
    pc,            \* position of the process in main()/try_download()
    progressFile,  \* progress.json on disk: [st, last_id]
    files,         \* downloads/<id>.epub on disk: "none" | "partial" | "full"
    progress,      \* in-memory progress["last_id"]
    book_id,       \* loop variable of main()
    attempts,      \* local counter of try_download
    runs,          \* process starts so far
    startK,        \* checkpoint on disk when this run loaded it (-1 before)
    files0,        \* content of the download directory when this run started
    visited,       \* IDs this run called file_exists() on, in order
    writes,        \* values this run completely wrote to progress.json, in order
    requested,     \* IDs this run issued at least one requests.get for
    okResp,        \* IDs for which a request of this run got 200 + epub type
    outc,          \* per ID: terminal log record of this run
    returned,      \* per ID: value try_download returned in this run
    nreq,          \* requests.get calls issued for book_id so far
    timeouts,      \* of which raised Timeout
    neterrs,       \* of which raised another RequestException
    lastResp,      \* result of the latest requests.get for book_id
    retryWaits,    \* sleep(RETRY_DELAY) calls completed for book_id
    paceCnt,       \* per ID: sleep(1) calls completed in this run
    storeErr,      \* which local I/O exception was raised in this run
    concluded,     \* highest ID whose skip or fetch+pace has concluded, all runs
    hiCkpt         \* highest value progress.json has held, all runs

vars == <<pc, progressFile, files, progress, book_id, attempts, runs, startK,
          files0, visited, writes, requested, okResp, outc, returned, nreq,
          timeouts, neterrs, lastResp, retryWaits, paceCnt, storeErr,
          concluded, hiCkpt>>

diskVars == <<progressFile, files>>
idGhosts == <<nreq, timeouts, neterrs, lastResp, retryWaits>>
runGhosts == <<startK, files0, visited, writes, requested, okResp, outc,
               returned, paceCnt>>

\* ---- what requests.get can do ----
Responses == {"200epub", "200html", "404epub", "404html", "timeout", "neterr"}

Status(r) == IF r \in {"200epub", "200html"} THEN 200 ELSE 404

ContentTypeIsEpub(r) == r \in {"200epub", "404epub"}

Running == {"start", "check", "request", "open", "write", "retrywait",
            "pace", "save", "dump"}

Max(a, b) == IF a >= b THEN a ELSE b

\* the integer stored in progress.json (0 when there is no file)
CkptOnDisk == IF progressFile.st = "ok" THEN progressFile.last_id ELSE 0

\* IDs that have a file in the download directory
Artifacts(f) == {i \in IDs : f[i] # "none"}

Misses == {"200html", "404epub", "404html"}

\* ---- pure pieces of the code ----
LoadProgressIgnoresFile(pf) == 0

LoadProgress(pf) == IF pf.st = "absent" THEN 0 ELSE pf.last_id

StartIdSameAsLast(last) == last

StartIdFromOne(last) == 1

StartId(last) == last + 1

InRangeExclusive(id) == id < MAX_ID

InRange(id) == id <= MAX_ID

NextIdSkipsOne(id) == id + 2

NextId(id) == id + 1

FileExistsWrongName(id) == FALSE

FileExists(id) == files[id] # "none"

IsEpubStatusOnly(r) == Status(r) = 200

IsEpub(r) == Status(r) = 200 /\ ContentTypeIsEpub(r)

HandlerCatchAll(exc) == "retry"

HandlerTimeoutOnly(exc) ==
    CASE exc = "timeout" -> "retry"
      [] OTHER           -> "propagate"

Handler(exc) ==
    CASE exc = "timeout" -> "retry"
      [] exc = "neterr"  -> "retry"
      [] OTHER           -> "propagate"

ClassifyRetriesMiss(r) ==
    IF r \in {"timeout", "neterr"} THEN Handler(r)
    ELSE IF IsEpub(r) THEN "save" ELSE "retry"

Classify(r) ==
    IF r \in {"timeout", "neterr"} THEN Handler(r)
    ELSE IF IsEpub(r) THEN "save" ELSE "miss"

MoreAttemptsInclusive(a) == a <= MAX_RETRIES

MoreAttempts(a) == a < MAX_RETRIES

\* attempts += 1 in either except clause
AttemptsAfterNetErrUncounted(a, exc) == IF exc = "timeout" THEN a + 1 ELSE a

AttemptsAfterAssignsOne(a, exc) == 1

AttemptsAfter(a, exc) == a + 1

\* where the loop body goes after its if/else: sleep(1) only in the else branch
AfterBodyAlwaysPaces(skipped) == "pace"

AfterBody(skipped) == IF skipped THEN "save" ELSE "pace"

ProgressValueNext(id) == id + 1

ProgressValue(id) == id

\* ---- initial state: any earlier checkpoint, any set of earlier downloads ----
Init ==
    /\ pc = "start"
    /\ progressFile \in ({[st |-> "absent", last_id |-> 0]}
                          \cup {[st |-> "ok", last_id |-> k] : k \in 0..MAX_ID})
    /\ files \in [IDs -> {"none", "full"}]
    /\ progress = 0
    /\ book_id = 0
    /\ attempts = 0
    /\ runs = 1
    /\ startK = -1
    /\ files0 = files
    /\ visited = <<>>
    /\ writes = <<>>
    /\ requested = {}
    /\ okResp = {}
    /\ outc = [i \in IDs |-> "none"]
    /\ returned = [i \in IDs |-> "none"]
    /\ nreq = 0
    /\ timeouts = 0
    /\ neterrs = 0
    /\ lastResp = "none"
    /\ retryWaits = 0
    /\ paceCnt = [i \in IDs |-> 0]
    /\ storeErr = "none"
    /\ concluded = CkptOnDisk
    /\ hiCkpt = CkptOnDisk

\* ---- main(): ensure_dir, load_progress, start of the for loop ----
Startup ==
    /\ pc = "start"
    /\ progressFile.st # "trunc"
    /\ progress' = LoadProgress(progressFile)
    /\ startK' = CkptOnDisk
    /\ book_id' = StartId(LoadProgress(progressFile))
    /\ pc' = IF InRange(StartId(LoadProgress(progressFile))) THEN "check" ELSE "done"
    /\ UNCHANGED <<diskVars, attempts, runs, files0, visited, writes, requested,
                   okResp, outc, returned, idGhosts, paceCnt, storeErr,
                   concluded, hiCkpt>>

\* json.load raises on an empty progress.json
StartupLoadFails ==
    /\ pc = "start"
    /\ progressFile.st = "trunc"
    /\ pc' = "crashed"
    /\ storeErr' = "load"
    /\ UNCHANGED <<diskVars, progress, book_id, attempts, runs, runGhosts,
                   idGhosts, concluded, hiCkpt>>

\* os.makedirs raises
StartupDirFails ==
    /\ pc = "start"
    /\ pc' = "crashed"
    /\ storeErr' = "dir"
    /\ UNCHANGED <<diskVars, progress, book_id, attempts, runs, runGhosts,
                   idGhosts, concluded, hiCkpt>>

\* ---- loop body: file_exists(book_id), then skip or enter try_download ----
CheckExisting ==
    /\ pc = "check"
    /\ visited' = Append(visited, book_id)
    /\ nreq' = 0
    /\ timeouts' = 0
    /\ neterrs' = 0
    /\ lastResp' = "none"
    /\ retryWaits' = 0
    /\ attempts' = 0
    /\ IF FileExists(book_id)
       THEN /\ pc' = AfterBody(TRUE)
            /\ outc' = [outc EXCEPT ![book_id] = "skip"]
            /\ concluded' = Max(concluded, book_id)
            /\ UNCHANGED returned
       ELSE IF MoreAttempts(0)
       THEN /\ pc' = "request"
            /\ UNCHANGED <<outc, concluded, returned>>
       ELSE /\ pc' = AfterBody(FALSE)
            /\ outc' = [outc EXCEPT ![book_id] = "Failed"]
            /\ returned' = [returned EXCEPT ![book_id] = "False"]
            /\ UNCHANGED concluded
    /\ UNCHANGED <<diskVars, progress, book_id, runs, startK, files0, writes,
                   requested, okResp, paceCnt, storeErr, hiCkpt>>

\* ---- try_download: one requests.get and the classification of its result ----
Request(r) ==
    /\ pc = "request"
    /\ nreq < MaxReq
    /\ nreq' = nreq + 1
    /\ requested' = requested \cup {book_id}
    /\ lastResp' = r
    /\ okResp' = IF r = "200epub" THEN okResp \cup {book_id} ELSE okResp
    /\ timeouts' = IF r = "timeout" THEN timeouts + 1 ELSE timeouts
    /\ neterrs' = IF r = "neterr" THEN neterrs + 1 ELSE neterrs
    /\ CASE Classify(r) = "save" ->
              /\ pc' = "open"
              /\ UNCHANGED <<attempts, outc, returned>>
         [] Classify(r) = "miss" ->
              /\ pc' = AfterBody(FALSE)
              /\ outc' = [outc EXCEPT ![book_id] = "NotFound"]
              /\ returned' = [returned EXCEPT ![book_id] = "False"]
              /\ UNCHANGED attempts
         [] Classify(r) = "retry" ->
              /\ pc' = "retrywait"
              /\ attempts' = AttemptsAfter(attempts, r)
              /\ UNCHANGED <<outc, returned>>
         [] OTHER ->
              /\ pc' = "crashed"
              /\ UNCHANGED <<attempts, outc, returned>>
    /\ UNCHANGED <<diskVars, progress, book_id, runs, startK, files0, visited,
                   writes, retryWaits, paceCnt, storeErr, concluded, hiCkpt>>

\* an OSError raised inside the try block meets the two except clauses
StoreErrorInTry(filesAfter) ==
    /\ files' = filesAfter
    /\ storeErr' = "artifact"
    /\ IF Handler("oserror") = "propagate"
       THEN /\ pc' = "crashed"
            /\ UNCHANGED attempts
       ELSE /\ pc' = "retrywait"
            /\ attempts' = AttemptsAfter(attempts, "oserror")
    /\ UNCHANGED <<progressFile, progress, book_id, runs, runGhosts, idGhosts,
                   concluded, hiCkpt>>

\* open(out_path, "wb") creates the empty file
OpenArtifact ==
    /\ pc = "open"
    /\ files' = [files EXCEPT ![book_id] = "partial"]
    /\ pc' = "write"
    /\ UNCHANGED <<progressFile, progress, book_id, attempts, runs, runGhosts,
                   idGhosts, storeErr, concluded, hiCkpt>>

OpenArtifactFails ==
    /\ pc = "open"
    /\ StoreErrorInTry(files)

\* f.write(response.content), close, log, return True
WriteArtifact ==
    /\ pc = "write"
    /\ files' = [files EXCEPT ![book_id] = "full"]
    /\ outc' = [outc EXCEPT ![book_id] = "Saved"]
    /\ returned' = [returned EXCEPT ![book_id] = "True"]
    /\ pc' = AfterBody(FALSE)
    /\ UNCHANGED <<progressFile, progress, book_id, attempts, runs, startK,
                   files0, visited, writes, requested, okResp, paceCnt,
                   idGhosts, storeErr, concluded, hiCkpt>>

WriteArtifactFails ==
    /\ pc = "write"
    /\ StoreErrorInTry(files)

\* sleep(RETRY_DELAY) after a caught exception, then the while test
RetryDelay ==
    /\ pc = "retrywait"
    /\ retryWaits' = retryWaits + 1
    /\ IF MoreAttempts(attempts)
       THEN /\ pc' = "request"
            /\ UNCHANGED <<outc, returned>>
       ELSE /\ pc' = AfterBody(FALSE)
            /\ outc' = [outc EXCEPT ![book_id] = "Failed"]
            /\ returned' = [returned EXCEPT ![book_id] = "False"]
    /\ UNCHANGED <<diskVars, progress, book_id, attempts, runs, startK, files0,
                   visited, writes, requested, okResp, paceCnt, nreq, timeouts,
                   neterrs, lastResp, storeErr, concluded, hiCkpt>>

\* sleep(1) after try_download returned
Pace ==
    /\ pc = "pace"
    /\ paceCnt' = [paceCnt EXCEPT ![book_id] = @ + 1]
    /\ concluded' = Max(concluded, book_id)
    /\ pc' = "save"
    /\ UNCHANGED <<diskVars, progress, book_id, attempts, runs, startK, files0,
                   visited, writes, requested, okResp, outc, returned, idGhosts,
                   storeErr, hiCkpt>>

\* ---- progress["last_id"] = book_id; save_progress(progress) ----
\* open(PROGRESS_FILE, "w") truncates the file
SaveOpen ==
    /\ pc = "save"
    /\ progress' = ProgressValue(book_id)
    /\ progressFile' = [st |-> "trunc", last_id |-> 0]
    /\ pc' = "dump"
    /\ UNCHANGED <<files, book_id, attempts, runs, runGhosts, idGhosts,
                   storeErr, concluded, hiCkpt>>

SaveOpenFails ==
    /\ pc = "save"
    /\ progress' = ProgressValue(book_id)
    /\ pc' = "crashed"
    /\ storeErr' = "checkpoint"
    /\ UNCHANGED <<diskVars, book_id, attempts, runs, runGhosts, idGhosts,
                   concluded, hiCkpt>>

\* json.dump and close; then the for loop takes the next ID or ends
SaveDump ==
    /\ pc = "dump"
    /\ progressFile' = [st |-> "ok", last_id |-> progress]
    /\ writes' = Append(writes, progress)
    /\ hiCkpt' = Max(hiCkpt, progress)
    /\ book_id' = NextId(book_id)
    /\ pc' = IF InRange(NextId(book_id)) THEN "check" ELSE "done"
    /\ UNCHANGED <<files, progress, attempts, runs, startK, files0, visited,
                   requested, okResp, outc, returned, paceCnt, idGhosts,
                   storeErr, concluded>>

SaveDumpFails ==
    /\ pc = "dump"
    /\ pc' = "crashed"
    /\ storeErr' = "checkpoint"
    /\ UNCHANGED <<diskVars, progress, book_id, attempts, runs, runGhosts,
                   idGhosts, concluded, hiCkpt>>

\* ---- the process is killed from outside; the disk stays as it is ----
Kill ==
    /\ pc \in Running
    /\ pc' = "killed"
    /\ UNCHANGED <<diskVars, progress, book_id, attempts, runs, runGhosts,
                   idGhosts, storeErr, concluded, hiCkpt>>

\* ---- main() is started again on the same disk ----
Restart ==
    /\ pc \in {"killed", "crashed", "done"}
    /\ runs < MaxRuns
    /\ runs' = runs + 1
    /\ pc' = "start"
    /\ progress' = 0
    /\ book_id' = 0
    /\ attempts' = 0
    /\ startK' = -1
    /\ files0' = files
    /\ visited' = <<>>
    /\ writes' = <<>>
    /\ requested' = {}
    /\ okResp' = {}
    /\ outc' = [i \in IDs |-> "none"]
    /\ returned' = [i \in IDs |-> "none"]
    /\ nreq' = 0
    /\ timeouts' = 0
    /\ neterrs' = 0
    /\ lastResp' = "none"
    /\ retryWaits' = 0
    /\ paceCnt' = [i \in IDs |-> 0]
    /\ storeErr' = "none"
    /\ UNCHANGED <<diskVars, concluded, hiCkpt>>

Next ==
    \/ Startup
    \/ StartupLoadFails
    \/ StartupDirFails
    \/ CheckExisting
    \/ \E r \in Responses : Request(r)
    \/ OpenArtifact
    \/ OpenArtifactFails
    \/ WriteArtifact
    \/ WriteArtifactFails
    \/ RetryDelay
    \/ Pace
    \/ SaveOpen
    \/ SaveOpenFails
    \/ SaveDump
    \/ SaveDumpFails
    \/ Kill
    \/ Restart

Spec == Init /\ [][Next]_vars

\* one run in which every wait and request returns, nothing kills the
\* process and no local I/O fails; the interpreter keeps executing
NextRun ==
    \/ Startup
    \/ CheckExisting
    \/ \E r \in Responses : Request(r)
    \/ OpenArtifact
    \/ WriteArtifact
    \/ RetryDelay
    \/ Pace
    \/ SaveOpen
    \/ SaveDump

RunSpec == Init /\ [][NextRun]_vars /\ WF_vars(NextRun)

Returned == {"pace", "save", "dump"}

\* ---- properties ----

\* C1: over any sequence of runs, completed or killed, the value readable
\* from progress.json never drops below a value it held before, and never
\* exceeds the highest ID whose skip or fetch has concluded.
C1_CheckpointMonotone ==
    progressFile.st # "trunc" =>
        /\ CkptOnDisk >= hiCkpt
        /\ CkptOnDisk <= concluded

C1_Witness ==
    /\ runs = 2
    /\ pc = "check"
    /\ startK >= 1
    /\ Len(writes) >= 1
    /\ CkptOnDisk = startK + 1
    /\ files0[2] = "partial"

\* C2: a run that loaded checkpoint K calls file_exists on K+1, K+2, ... in
\* this order, each once, up to MAX_ID when it finishes, and checks or
\* requests no ID <= K.
C2_ResumeOrder ==
    startK >= 0 =>
        /\ \A i \in 1..Len(visited) : visited[i] = startK + i
        /\ requested \subseteq {visited[i] : i \in 1..Len(visited)}
        /\ \A id \in requested : id > startK
        /\ pc = "done" => Len(visited) = Max(MAX_ID - startK, 0)
        /\ pc \in Running =>
              book_id = startK + Len(visited) + (IF pc = "check" THEN 1 ELSE 0)

C2_Witness ==
    /\ pc = "done"
    /\ startK = 1
    /\ \A id \in IDs : id > startK => files0[id] = "none"
    /\ visited[1] = 2
    /\ Len(visited) = MAX_ID - 1

\* C3: an ID whose file is in the download directory when the run reaches it
\* gets no request in that run and its file is left as it was, whatever the
\* checkpoint was at start.
C3_IdempotentSkip ==
    \A i \in 1..Len(visited) :
        files0[visited[i]] # "none" =>
            /\ visited[i] \notin requested
            /\ files[visited[i]] = files0[visited[i]]
            /\ outc[visited[i]] = "skip"

C3_Witness ==
    /\ startK = 1
    /\ Len(visited) >= 2
    /\ files0[2] = "full"
    /\ outc[2] = "skip"
    /\ 3 \in requested

\* C4: when every request for an ID raised Timeout, try_download has issued
\* exactly MAX_RETRIES = 3 requests when it returns, it returns False after
\* logging the failure, and there is no file for the ID.
C4_RetryBound ==
    /\ nreq <= MAX_RETRIES
    /\ (pc \in Returned /\ nreq > 0 /\ timeouts = nreq) =>
          /\ nreq = 3
          /\ nreq = MAX_RETRIES
          /\ outc[book_id] = "Failed"
          /\ returned[book_id] = "False"
          /\ files[book_id] = "none"

C4_Witness ==
    /\ pc = "pace"
    /\ timeouts = 3
    /\ nreq = 3
    /\ outc[book_id] = "Failed"

\* C5: once a request completed with a status other than 200 or a media type
\* other than epub, try_download has returned NotFound with no further
\* request, on the first attempt as well as after transient errors.
C5_NoRetryOnMiss ==
    (lastResp \in Misses /\ pc \in Running \ {"start", "check"}) =>
        /\ pc \in Returned
        /\ outc[book_id] = "NotFound"
        /\ nreq = attempts + 1
        /\ attempts = timeouts + neterrs
        /\ files[book_id] = "none"

C5_Witness ==
    /\ pc = "pace"
    /\ lastResp = "200html"
    /\ attempts = 2
    /\ nreq = 3

\* C6: when writing the file of ID N raised an OSError, the retry loop did
\* not catch it, the run has ended, progress.json holds N-1 and no ID
\* above N was checked or requested.
C6_ArtifactErrorHalts ==
    storeErr = "artifact" =>
        /\ pc = "crashed"
        /\ progressFile.st # "trunc"
        /\ CkptOnDisk = book_id - 1
        /\ visited[Len(visited)] = book_id
        /\ \A id \in requested : id <= book_id
        /\ attempts = timeouts + neterrs
        /\ retryWaits = attempts
        /\ returned[book_id] = "none"

C6_Witness ==
    /\ storeErr = "artifact"
    /\ pc = "crashed"
    /\ book_id = 2
    /\ files[2] = "partial"
    /\ CkptOnDisk = 1

\* C7: whenever the process has been killed, progress.json holds a readable
\* value that is no lower than any value it held before and no higher than
\* the last ID whose processing concluded.
C7_CrashConsistent ==
    pc = "killed" =>
        /\ progressFile.st # "trunc"
        /\ CkptOnDisk >= hiCkpt
        /\ CkptOnDisk <= concluded

\* C8: in a run that was neither killed nor stopped by a store error, the
\* values written to progress.json are K+1, K+2, ... in order, one write for
\* every ID the loop has left behind whatever its outcome, and the loop ends
\* only after MAX_ID.
C8_AdvanceOncePerId ==
    (startK >= 0 /\ pc \notin {"killed", "crashed"}) =>
        /\ \A i \in 1..Len(writes) : writes[i] = startK + i
        /\ pc \in Running => Len(writes) = book_id - startK - 1
        /\ pc = "done" => Len(writes) = Max(MAX_ID - startK, 0)
        /\ \A id \in IDs :
              (outc[id] # "none" /\ id < book_id) =>
                  Cardinality({i \in 1..Len(writes) : writes[i] = id}) = 1
        /\ (pc \in Running /\ returned[book_id] # "none") => pc \in Returned

C8_Witness ==
    /\ pc = "done"
    /\ startK = 0
    /\ outc[1] = "skip"
    /\ outc[2] = "NotFound"
    /\ outc[3] = "Failed"
    /\ Len(writes) = MAX_ID
    /\ writes[3] = 3

\* C9 as stated: the value try_download returns tells the three outcomes
\* apart, so two IDs with different outcomes got different return values.
C9_TriStateDistinguishable ==
    \A i, j \in IDs :
        (returned[i] # "none" /\ returned[j] # "none" /\ outc[i] # outc[j]) =>
            returned[i] # returned[j]

\* C9 amended: try_download returns True exactly when a response with status
\* 200 and the epub media type was written to the file (Saved) and False
\* otherwise; the log record is NotFound exactly when a response completed
\* without meeting that condition and Failed exactly when MAX_RETRIES
\* requests all raised Timeout or another RequestException; a run ends
\* abnormally only on a local I/O error, never on a request exception.
C9_BooleanOutcome ==
    /\ pc = "crashed" => storeErr # "none"
    /\ (pc \in Returned /\ nreq > 0) =>
          /\ returned[book_id] \in {"True", "False"}
          /\ outc[book_id] \in {"Saved", "NotFound", "Failed"}
          /\ returned[book_id] = "True" <=> outc[book_id] = "Saved"
          /\ outc[book_id] = "Saved" <=>
                (lastResp = "200epub" /\ files[book_id] = "full")
          /\ outc[book_id] = "NotFound" <=> lastResp \in Misses
          /\ outc[book_id] = "Failed" <=>
                (lastResp \in {"timeout", "neterr"}
                   /\ timeouts + neterrs = MAX_RETRIES)

C9_Witness ==
    /\ pc = "pace"
    /\ book_id = 2
    /\ outc[1] = "NotFound"
    /\ returned[1] = "False"
    /\ outc[2] = "Failed"
    /\ returned[2] = "False"
    /\ neterrs >= 1
    /\ timeouts >= 1

\* C10: when a run that loaded checkpoint K < MAX_ID has finished,
\* progress.json holds MAX_ID and the files in the download directory are
\* those present at start plus exactly the IDs in K+1..MAX_ID that got a
\* response with status 200 and the epub media type; NotFound and Failed
\* IDs have no file.
C10_EndState ==
    (pc = "done" /\ startK < MAX_ID) =>
        /\ progressFile = [st |-> "ok", last_id |-> MAX_ID]
        /\ Artifacts(files) = Artifacts(files0) \cup okResp
        /\ \A id \in okResp : id > startK /\ files[id] = "full"
        /\ \A id \in IDs : outc[id] \in {"NotFound", "Failed"} => files[id] = "none"

C10_Witness ==
    /\ pc = "done"
    /\ startK = 0
    /\ \A id \in 1..3 : files0[id] = "none"
    /\ outc[1] = "Saved"
    /\ outc[2] = "NotFound"
    /\ outc[3] = "Failed"
    /\ files[1] = "full"
    /\ files[2] = "none"
    /\ files[3] = "none"
    /\ CkptOnDisk = MAX_ID

\* C11 as stated: whether an ID without a file is fetched does not depend on
\* the checkpoint the run started from; a run from checkpoint 0 fetches every
\* such ID, so every finished run has requested every ID that had no file.
C11_CheckpointIndependent ==
    pc = "done" =>
        \A id \in IDs : files0[id] = "none" => id \in requested

\* C11 amended: in a finished run an ID is requested exactly when it had no
\* file at start and lies above the checkpoint the run loaded; so two runs
\* on the same download directory decide alike for every ID above both
\* checkpoints, and an ID at or below the checkpoint is never fetched.
C11_DecisionAboveCheckpoint ==
    pc = "done" =>
        \A id \in IDs :
            id \in requested <=> (id > startK /\ files0[id] = "none")

C11_Witness ==
    /\ pc = "done"
    /\ startK = 1
    /\ files0[1] = "none"
    /\ files0[2] = "none"
    /\ 1 \notin requested
    /\ 2 \in requested

\* C12: when a write of progress.json for ID N raised an error, the run has
\* ended and progress.json still holds the readable value N-1.
C12_CheckpointErrorKeepsValue ==
    storeErr = "checkpoint" =>
        /\ pc = "crashed"
        /\ progressFile.st # "trunc"
        /\ CkptOnDisk = book_id - 1

\* C13: a file in the download directory is complete unless it is the one
\* being written right now, and a run skips an ID only for a complete file.
C13_ArtifactMeansSuccess ==
    \A id \in IDs :
        /\ files[id] = "partial" => (pc = "write" /\ book_id = id)
        /\ outc[id] = "skip" => files0[id] = "full"

Fetched == {"Saved", "NotFound", "Failed"}

\* C14: sleep(RETRY_DELAY) is waited only between two requests for the same
\* ID, so when try_download has returned it has waited one delay fewer than
\* it issued requests.
C14_DelayOnlyBeforeRetry ==
    (pc \in Returned /\ nreq > 0) => retryWaits = nreq - 1

\* C15: Timeout and the other request exceptions feed one counter: attempts
\* is their sum and never exceeds MAX_RETRIES, at most 3 requests are issued
\* for one ID, and try_download ends Failed exactly when 3 requests all
\* raised one of the two.
C15_SharedRetryBudget ==
    /\ attempts = timeouts + neterrs
    /\ attempts <= MAX_RETRIES
    /\ nreq <= 3
    /\ (pc \in Returned /\ nreq > 0) =>
          (outc[book_id] = "Failed" <=> (nreq = 3 /\ timeouts + neterrs = 3))

C15_Witness ==
    /\ pc = "pace"
    /\ outc[book_id] = "Failed"
    /\ timeouts = 2
    /\ neterrs = 1
    /\ nreq = 3

\* C16: in a run that was not cut short, sleep(1) has been waited exactly
\* once for every ID whose try_download returned, with any of the three
\* outcomes, before progress.json is written for it, and never for a
\* skipped ID.
C16_PacingPlacement ==
    \A id \in IDs :
        /\ paceCnt[id] <= 1
        /\ outc[id] \in {"none", "skip"} => paceCnt[id] = 0
        /\ (outc[id] \in Fetched /\ pc \notin {"killed", "crashed"}) =>
              paceCnt[id] = (IF pc = "pace" /\ book_id = id THEN 0 ELSE 1)
        /\ (pc = "dump" /\ book_id = id /\ outc[id] \in Fetched) => paceCnt[id] = 1
        /\ (startK >= 0 /\ id - startK \in 1..Len(writes) /\ outc[id] \in Fetched) =>
              paceCnt[id] = 1

C16_Witness ==
    /\ pc = "done"
    /\ startK = 0
    /\ outc[1] = "skip"
    /\ paceCnt[1] = 0
    /\ outc[2] = "Saved"
    /\ paceCnt[2] = 1
    /\ outc[3] = "Failed"
    /\ paceCnt[3] = 1

\* C17: while ID n is being checked, requested, written, retried or paced,
\* progress.json holds the readable value n-1: the write of n-1 is complete
\* before anything is done for n and nothing is written for n before its
\* processing has ended.
C17_AdvanceBeforeNext ==
    pc \in {"check", "request", "open", "write", "retrywait", "pace", "save"} =>
        /\ progressFile.st # "trunc"
        /\ CkptOnDisk = book_id - 1
        /\ Len(writes) = book_id - 1 - startK

C17_Witness ==
    /\ pc = "retrywait"
    /\ book_id = 2
    /\ startK = 0
    /\ writes = <<1>>
    /\ CkptOnDisk = 1

\* C18: whatever the endpoint answers, a run in which every wait and
\* request returns and no local I/O fails reaches the end of the loop with
\* book_id > MAX_ID and progress.json at MAX_ID; no ID is retried forever.
C18_Termination ==
    <>(pc = "done" /\ book_id > MAX_ID /\ CkptOnDisk >= MAX_ID)

C18_Witness ==
    /\ pc = "done"
    /\ book_id = MAX_ID + 1
    /\ outc[1] = "Failed"
    /\ outc[2] = "Failed"
    /\ outc[3] = "Saved"
    /\ lastResp = "200epub"
    /\ attempts = 2

\* C19: a run that loads a checkpoint >= MAX_ID calls file_exists on
\* nothing, issues no request, changes no file and leaves progress.json
\* as it was, also for IDs that have no file.
C19_CompletedRunFixedPoint ==
    startK >= MAX_ID =>
        /\ pc = "done"
        /\ visited = <<>>
        /\ requested = {}
        /\ files = files0
        /\ writes = <<>>
        /\ progressFile = [st |-> "ok", last_id |-> startK]
        /\ storeErr = "none"

C19_Witness ==
    /\ runs = 2
    /\ pc = "done"
    /\ startK = MAX_ID
    /\ hiCkpt = MAX_ID
    /\ files[1] = "none"
    /\ files[2] = "full"

TypeOK ==
    /\ pc \in Running \cup {"done", "killed", "crashed"}
    /\ progressFile.st \in {"absent", "trunc", "ok"}
    /\ files \in [IDs -> {"none", "partial", "full"}]
    /\ attempts \in 0..(MAX_RETRIES + 1)
    /\ runs \in 1..MaxRuns
====
